---- MODULE Spec2Model ----
(***************************************************************************)
(* simple-std, mod random (src/src/lib.rs): the process-wide xorshift128+  *)
(* generator random_u64 with its lazy clock seeding, and the two public    *)
(* wrappers random_float and random_int_range.                             *)
(*                                                                         *)
(* A u64 (and the u128 of system_time_random) is the set of the positions  *)
(* of its one bits, so every shift, xor and wrapping add is computed on    *)
(* the full 64-bit word.  An i32 is an integer in MinI32 .. MaxI32; every  *)
(* i32 operation reports whether it overflowed, next to its wrapped value. *)
(* An f64 is sign, odd mantissa and binary exponent.                       *)
(***************************************************************************)
EXTENDS Integers, FiniteSets, Sequences, TLC

----------------------------------------------------------------------------
(* Bounds of the model *)

\* draws one thread makes in the single-threaded specification
MaxCalls == 3
\* draws the two threads of the two-threaded specification make together
MaxCallsConc == 2

----------------------------------------------------------------------------
(* 64-bit unsigned words *)

Bits64 == 0 .. 63

Zero64 == {}

\* x << k on u64: the bits shifted past bit 63 are dropped
Shl(x, k) == {i + k : i \in {j \in x : j + k <= 63}}

\* x >> k on u64 (logical)
Shr(x, k) == {i - k : i \in {j \in x : j >= k}}

\* x ^ y
Xor(x, y) == (x \ y) \cup (y \ x)

Bit(x, i) == IF i \in x THEN 1 ELSE 0

RECURSIVE AddFrom(_, _, _, _)
\* ripple-carry sum of x and y from bit i upwards with carry c into bit i;
\* the carry out of bit 63 is dropped
AddFrom(x, y, i, c) ==
    IF i > 63 THEN {}
    ELSE LET n == Bit(x, i) + Bit(y, i) + c
         IN  (IF n % 2 = 1 THEN {i} ELSE {}) \cup AddFrom(x, y, i + 1, n \div 2)

\* u64::wrapping_add
WrappingAdd(x, y) == AddFrom(x, y, 0, 0)

\* the highest one bit of a non-zero word
TopBit(x) == CHOOSE i \in x : \A j \in x : j <= i

\* the lowest one bit of a non-zero word
LowBit(x) == CHOOSE i \in x : \A j \in x : j >= i

----------------------------------------------------------------------------
(* 32-bit signed integers *)

MaxI32 == 2147483647
MinI32 == (-MaxI32) - 1

RECURSIVE SumBits(_, _)
\* the number whose one bits are the members of x below bit i (i <= 31)
SumBits(x, i) ==
    IF i = 0 THEN 0
    ELSE (IF (i - 1) \in x THEN 2 ^ (i - 1) ELSE 0) + SumBits(x, i - 1)

\* `x as i32` for a u64 x: the low 32 bits, read in two's complement
AsI32(x) == SumBits(x, 31) + (IF 31 \in x THEN MinI32 ELSE 0)

\* a - b on i32: ovf says the exact difference does not fit, val is the
\* difference wrapped to 32 bits
SubI32(a, b) ==
    IF b < 0 /\ a > MaxI32 + b
      THEN [ovf |-> TRUE, val |-> ((a + MinI32) - b) + MinI32]
    ELSE IF b > 0 /\ a < MinI32 + b
      THEN [ovf |-> TRUE, val |-> ((a - MinI32) - b) - MinI32]
    ELSE [ovf |-> FALSE, val |-> a - b]

\* a + b on i32
AddI32(a, b) ==
    IF b > 0 /\ a > MaxI32 - b
      THEN [ovf |-> TRUE, val |-> ((a + MinI32) + b) + MinI32]
    ELSE IF b < 0 /\ a < MinI32 - b
      THEN [ovf |-> TRUE, val |-> ((a - MinI32) + b) - MinI32]
    ELSE [ovf |-> FALSE, val |-> a + b]

\* i32::abs: the absolute value of MinI32 does not fit and wraps to MinI32
AbsI32(a) ==
    IF a = MinI32 THEN [ovf |-> TRUE, val |-> MinI32]
    ELSE [ovf |-> FALSE, val |-> IF a < 0 THEN -a ELSE a]

\* a % b on i32, the remainder of the division truncated towards zero (its
\* sign is the sign of a).  fault: "zero" for b = 0 and "overflow" for
\* MinI32 % -1, on which Rust panics in every build profile
RemI32(a, b) ==
    IF b = 0 THEN [fault |-> "zero", val |-> 0]
    ELSE IF a = MinI32 /\ b = -1 THEN [fault |-> "overflow", val |-> 0]
    ELSE IF b = MinI32 THEN [fault |-> "none", val |-> IF a = MinI32 THEN 0 ELSE a]
    ELSE LET mb == IF b < 0 THEN -b ELSE b
         IN  IF a >= 0 THEN [fault |-> "none", val |-> a % mb]
             ELSE IF a = MinI32
               THEN [fault |-> "none", val |-> -(((MaxI32 % mb) + 1) % mb)]
             ELSE [fault |-> "none", val |-> -((-a) % mb)]

----------------------------------------------------------------------------
(* 64-bit floating point: (-1)^neg * mant * 2^exp, mant odd or zero *)

\* significant bits of an f64
F64Precision == 53

F64Make(m, e) ==
    IF m = {} THEN [neg |-> FALSE, mant |-> {}, exp |-> 0]
    ELSE [neg |-> FALSE, mant |-> Shr(m, LowBit(m)), exp |-> e + LowBit(m)]

\* `x as f64` for a u64 x: exact when x has at most 53 significant bits,
\* otherwise rounded to 53 significant bits, ties to even
U64AsF64(x) ==
    IF x = {} \/ TopBit(x) < F64Precision THEN F64Make(x, 0)
    ELSE LET k    == TopBit(x) - (F64Precision - 1)
             q    == Shr(x, k)
             half == (k - 1) \in x
             rest == \E i \in x : i < k - 1
             up   == half /\ (rest \/ 0 \in q)
         IN  F64Make(IF up THEN WrappingAdd(q, {0}) ELSE q, k)

\* f / g for a divisor g that is a power of two: exact, the exponents subtract
F64Div(f, g) ==
    IF f.mant = {} THEN f
    ELSE [neg |-> f.neg # g.neg, mant |-> f.mant, exp |-> f.exp - g.exp]

\* f < 1.0
F64Lt1(f) == f.mant = {} \/ f.neg \/ TopBit(f.mant) + f.exp < 0

\* f >= 0.0
F64Ge0(f) == f.mant = {} \/ ~f.neg

----------------------------------------------------------------------------
(* mod random: the pure parts *)

\* Xorshift without its last line, s1 ^= s0 >> 26
XorshiftNoHighMix(s1, s0) ==
    LET a == Xor(s1, Shl(s1, 23))
        b == Xor(a, Shr(a, 17))
    IN  Xor(b, s0)

\* lines 144-147: the xorshift128+ mixing of the two loaded words
Xorshift(s1, s0) ==
    LET a == Xor(s1, Shl(s1, 23))
        b == Xor(a, Shr(a, 17))
        c == Xor(b, s0)
    IN  Xor(c, Shr(s0, 26))

\* RawOutput without the addition: the new s1 alone is returned
RawOutputS1Only(s0, s1) == s1

\* line 151: s0.wrapping_add(s1)
RawOutput(s0, s1) == WrappingAdd(s0, s1)

\* FloatNumerator with a shift one bit short, which keeps 54 bits
FloatNumeratorShift10(raw) == Shr(raw, 10)

\* line 96: the numerator (random_u64() >> 11)
FloatNumerator(raw) == Shr(raw, 11)

\* line 96: the denominator (1u64 << 53)
FloatDenominator == Shl({0}, 53)

\* line 96: random_float's value for a raw draw
FloatOf(raw) == F64Div(U64AsF64(FloatNumerator(raw)), U64AsF64(FloatDenominator))

\* `x as u64` for a u128 x (lines 132-133)
AsU64(x) == x \cap Bits64

\* lines 157-164: as_micros() ^ as_nanos() of two readings of the clock
SystemTimeRandom(t) == Xor(t.micros, t.nanos)

NoF64 == F64Make({}, 0)

\* how a call of a public function ends
NoResult       == [kind |-> "none", at |-> "", i |-> 0, f |-> NoF64]
Panicked(at)   == [kind |-> "panic", at |-> at, i |-> 0, f |-> NoF64]
Returned(i)    == [kind |-> "int", at |-> "", i |-> i, f |-> NoF64]
ReturnedF64(f) == [kind |-> "float", at |-> "", i |-> 0, f |-> f]

\* line 119: let difference = range.end - range.start
Difference(start, end) == SubI32(end, start)

\* lines 119-120 after the draw: abs, remainder and sum on i32.  checks is
\* the build's overflow-checks setting (on in a debug build, off in a release
\* build): an overflowing abs or + panics when it is on and wraps otherwise
RangeResult(start, difference, raw, checks) ==
    LET ab  == AbsI32(AsI32(raw))
        rm  == RemI32(ab.val, difference)
        sum == AddI32(start, rm.val)
    IN  IF ab.ovf /\ checks THEN Panicked("abs")
        ELSE IF rm.fault # "none" THEN Panicked("rem")
        ELSE IF sum.ovf /\ checks THEN Panicked("add")
        ELSE Returned(sum.val)

\* lines 118-121: random_int_range as a function of its range, the raw draw
\* and the build's overflow checks
RandomIntRange(start, end, raw, checks) ==
    LET d == Difference(start, end)
    IN  IF d.ovf /\ checks THEN Panicked("sub")
        ELSE RangeResult(start, d.val, raw, checks)

----------------------------------------------------------------------------
(* The inputs of the model *)

\* the word whose 16-bit limbs, least significant first, are given
Word(limbs) ==
    {n \in 0 .. (16 * Len(limbs) - 1) : (limbs[(n \div 16) + 1] \div (2 ^ (n % 16))) % 2 = 1}

\* as_nanos() of the clock readings below
NanosNow == Word(<<\He213, \H8e38, \H7a63, \H1814>>)

\* Seed words: what system_time_random() as u64 yields for the readings below.
\* SeedB is an ordinary word.  After seeding (state0, state1) with
\* (SeedEq, SeedB) two draws in a row return the same word; with
\* (SeedZ, SeedB) the first draw mixes state1 to 0, so the second draw leaves
\* state0 = 0; with (SeedMin, SeedB) the first draw returns 0x80000000, which
\* is MinI32 as i32; with (SeedTop, SeedB) it returns 0xFFFFFFFFFFFFF803,
\* whose upper 53 bits are all ones.
SeedB   == Word(<<\H5e6f, \H3c4d, \H2a1b, \H0006>>)
SeedEq  == Word(<<\H73b4, \Hb7ce, \Heb8e, \Hcac3>>)
SeedZ   == Word(<<\Hccc5, \H4a4b, \H0ffe, \Hff23>>)
SeedMin == Word(<<\Ha60b, \Hbbf5, \H7ad2, \H96a2>>)
SeedTop == Word(<<\H5e0e, \H3975, \H3aaf, \Ha863>>)

\* Readings of the clock, as_micros() and as_nanos() as u128.  The clock is
\* the environment; the readings are picked so that their xor, cut to 64
\* bits, is one of the seed words or 0 (the first reading has a one bit above
\* bit 63, which the cast drops).
TimeSamples ==
    {[micros |-> NanosNow \cup {70}, nanos |-> NanosNow]} \cup
    {[micros |-> Xor(NanosNow, w), nanos |-> NanosNow] :
        w \in {SeedB, SeedEq, SeedZ, SeedMin, SeedTop}}

\* the readings two racing threads seed from
TimeSamplesConc ==
    {[micros |-> Xor(NanosNow, w), nanos |-> NanosNow] : w \in {SeedB, SeedZ}}

R(a, b) == [start |-> a, end |-> b]

\* lines 196 and 207: the ranges of the tests
TestRanges == {R(0, 10), R(5, 15), R(1000, 1004), R(-5, 5), R(-10, -5)}

\* ranges at the edges: empty, reversed, and wider than MaxI32
EdgeRanges == {R(5, 5), R(10, 0), R(MinI32, MaxI32)}

\* a range at the low end of i32, where start plus a negative remainder does
\* not fit
LowRanges == {R(MinI32, MinI32 + 10)}

Ranges == TestRanges \cup EdgeRanges \cup LowRanges

\* the ranges random_int_range is called with when the draws come from the
\* generator
DrawRanges == {R(0, 10), R(-10, -5)} \cup EdgeRanges

\* Raw draws random_int_range is applied to, one after the other, when it is
\* examined as a function of the draw: the words 0 .. 9, which give every
\* remainder by the differences of the test ranges, and words whose low 32
\* bits are 0x80000000, -3, 7 below set upper bits, MaxI32 and -1
RawDraws ==
    [k \in 1 .. 10 |-> Word(<<k - 1>>)] \o
    <<Word(<<0, \H8000>>), Word(<<\Hfffd, \Hffff>>), Word(<<7, 0, \Hbeef, \H8000>>),
      Word(<<\Hffff, \H7fff>>), Word(<<\Hffff, \Hffff, \Hffff, \Hffff>>)>>

----------------------------------------------------------------------------
(* The state *)

Threads == {1, 2}

VARIABLES
    STATE0,           \* line 127: static STATE0
    STATE1,           \* line 128: static STATE1
    overflow_checks,  \* the build profile: TRUE when arithmetic overflow panics
    running,          \* the threads of the program
    pc,               \* pc[t]: where thread t stands
    s1,               \* s1[t]: the local s1 of random_u64 (lines 139-149)
    s0,               \* s0[t]: the local s0 of random_u64 (line 140)
    call,             \* call[t]: the public function thread t is in, its range and difference
    result,           \* result[t]: how the last call of thread t ended
    ncalls,           \* ncalls[t]: calls thread t has started
    h,                \* h[t]: what the current or last call of thread t observed
    prev,             \* prev[t]: result and observations of the call before, when
                      \* that call was a random_float that returned and thread t
                      \* is the only thread (the sequence of one thread's results)
    covered,          \* the integers random_int_range has returned for the range
                      \* under test (lines 206-216, test::distributed_range)
    origin            \* origin[1], origin[2]: the store that wrote the word now in
                      \* STATE0 and in STATE1

vars == <<STATE0, STATE1, overflow_checks, running, pc, s1, s0, call, result, ncalls, h, prev, covered, origin>>

NoCall == [op |-> "none", start |-> 0, end |-> 0, difference |-> 0]

\* Where the word in a static comes from: "init" is the 0 of lines 127-128,
\* "seed" a store of lines 132-133, "rotate" the store of line 142 and "mix"
\* the store of line 149
Origins == {"init", "seed", "rotate", "mix"}

\* the word was stored by a mixing step (lines 142 and 149)
Advanced(o) == o \in {"rotate", "mix"}

NoHistory ==
    [entry  |-> <<Zero64, Zero64>>,  \* (STATE0, STATE1) when the call began
     seeded |-> FALSE,               \* the call stored seeds
     reads  |-> 0,                   \* calls of system_time_random
     base   |-> <<Zero64, Zero64>>,  \* (STATE0, STATE1) when the seeding branch was left
     ld0    |-> Zero64,              \* the word line 139 loaded
     steps  |-> 0,                   \* stores of line 149
     unset  |-> FALSE,               \* line 139 or 140 loaded a word no store had written
     lost   |-> FALSE,               \* a seed store of the call replaced a word that
                                     \* a mixing step had stored
     raw    |-> Zero64,              \* the word random_u64 returned
     exit   |-> <<Zero64, Zero64>>]  \* (STATE0, STATE1) when random_u64 returned

NoPrev == [result |-> NoResult, h |-> NoHistory, s0 |-> Zero64, s1 |-> Zero64]

\* thread t may start another call
MayCall(t) ==
    IF Cardinality(running) = 1 THEN ncalls[t] < MaxCalls
    ELSE ncalls[1] + ncalls[2] < MaxCallsConc

TimeSamplesOf(ths) == IF Cardinality(ths) = 1 THEN TimeSamples ELSE TimeSamplesConc

\* the state after one draw from the state (a, b)
AfterDraw(a, b) == <<b, Xorshift(a, b)>>

\* the generator states two threads start racing from: a new process, or a
\* process whose main thread has drawn once after seeding
ConcStarts ==
    {<<Zero64, Zero64>>} \cup {AfterDraw(a, SeedB) : a \in {SeedB, SeedEq, SeedZ}}

InitWith(ths, st, c, builds) ==
    /\ STATE0 = st[1]
    /\ STATE1 = st[2]
    /\ overflow_checks \in builds
    /\ running = ths
    /\ pc = [t \in Threads |-> "idle"]
    /\ s1 = [t \in Threads |-> Zero64]
    /\ s0 = [t \in Threads |-> Zero64]
    /\ call = [t \in Threads |-> IF t = 1 THEN c ELSE NoCall]
    /\ result = [t \in Threads |-> NoResult]
    /\ ncalls = [t \in Threads |-> 0]
    /\ h = [t \in Threads |-> NoHistory]
    /\ prev = [t \in Threads |-> NoPrev]
    /\ covered = {}
    /\ origin = IF st = <<Zero64, Zero64>>
                  THEN <<"init", "init">>
                  ELSE <<"rotate", "mix">>

\* lines 127-128: both words are 0 when the process starts; one thread draws
Init == InitWith({1}, <<Zero64, Zero64>>, NoCall, BOOLEAN)

\* two threads draw, from the state of a new process or after a first draw;
\* they call random_float, which has no arithmetic that can overflow, so the
\* build profile makes no difference and is fixed
InitConc == \E st \in ConcStarts : InitWith(Threads, st, NoCall, {FALSE})

\* lines 127-128: two threads draw in a new process, both words are 0
InitRace == InitWith(Threads, <<Zero64, Zero64>>, NoCall, {FALSE})

\* random_int_range is applied to one range and each of RawDraws in turn
InitRange ==
    \E r \in Ranges :
        InitWith({1}, <<Zero64, Zero64>>,
                 [op |-> "range", start |-> r.start, end |-> r.end, difference |-> 0],
                 BOOLEAN)

----------------------------------------------------------------------------
(* The operations *)

\* a public function is entered by thread t: its locals are fresh
Enter(t, c, res) ==
    /\ call' = [call EXCEPT ![t] = c]
    /\ ncalls' = [ncalls EXCEPT ![t] = @ + 1]
    /\ prev' = [prev EXCEPT ![t] =
                  IF result[t].kind = "float" /\ Cardinality(running) = 1
                    THEN [result |-> result[t], h |-> h[t], s0 |-> s0[t], s1 |-> s1[t]]
                    ELSE NoPrev]
    /\ h' = [h EXCEPT ![t] = [NoHistory EXCEPT !.entry = <<STATE0, STATE1>>]]
    /\ result' = [result EXCEPT ![t] = res]
    /\ s1' = [s1 EXCEPT ![t] = Zero64]
    /\ s0' = [s0 EXCEPT ![t] = Zero64]

\* line 95: random_float is called
CallFloat(t) ==
    /\ t \in running
    /\ pc[t] = "idle"
    /\ MayCall(t)
    /\ Enter(t, [NoCall EXCEPT !.op = "float"], NoResult)
    /\ pc' = [pc EXCEPT ![t] = "check"]
    /\ UNCHANGED <<STATE0, STATE1, overflow_checks, running, covered, origin>>

\* lines 118-119: random_int_range is called and computes end - start, which
\* panics on overflow in a build with overflow checks and wraps otherwise
CallIntRange(t) ==
    /\ t \in running
    /\ pc[t] = "idle"
    /\ MayCall(t)
    /\ \E r \in DrawRanges :
         LET d == Difference(r.start, r.end)
             c == [op |-> "range", start |-> r.start, end |-> r.end,
                   difference |-> d.val]
         IN  IF d.ovf /\ overflow_checks
               THEN /\ Enter(t, c, Panicked("sub"))
                    /\ pc' = [pc EXCEPT ![t] = "panicked"]
               ELSE /\ Enter(t, c, NoResult)
                    /\ pc' = [pc EXCEPT ![t] = "check"]
    /\ UNCHANGED <<STATE0, STATE1, overflow_checks, running, covered, origin>>

\* Check without the seeding branch: no draw seeds
CheckNever(t) ==
    /\ t \in running
    /\ pc[t] = "check"
    /\ pc' = [pc EXCEPT ![t] = "load0"]
    /\ h' = [h EXCEPT ![t].base = <<STATE0, STATE1>>]
    /\ UNCHANGED <<STATE0, STATE1, overflow_checks, running, s1, s0, call, result, ncalls, prev, covered, origin>>

\* Check without its condition: every draw seeds
CheckAlways(t) ==
    /\ t \in running
    /\ pc[t] = "check"
    /\ pc' = [pc EXCEPT ![t] = "seed0"]
    /\ UNCHANGED <<STATE0, STATE1, overflow_checks, running, s1, s0, call, result, ncalls, h, prev, covered, origin>>

\* Check with the wrong word tested: it seeds when STATE1 is 0
CheckState1(t) ==
    /\ t \in running
    /\ pc[t] = "check"
    /\ IF STATE1 = Zero64
         THEN /\ pc' = [pc EXCEPT ![t] = "seed0"]
              /\ UNCHANGED h
         ELSE /\ pc' = [pc EXCEPT ![t] = "load0"]
              /\ h' = [h EXCEPT ![t].base = <<STATE0, STATE1>>]
    /\ UNCHANGED <<STATE0, STATE1, overflow_checks, running, s1, s0, call, result, ncalls, prev, covered, origin>>

\* line 130: random_u64 loads STATE0 and compares it with 0
Check(t) ==
    /\ t \in running
    /\ pc[t] = "check"
    /\ IF STATE0 = Zero64
         THEN /\ pc' = [pc EXCEPT ![t] = "seed0"]
              /\ UNCHANGED h
         ELSE /\ pc' = [pc EXCEPT ![t] = "load0"]
              /\ h' = [h EXCEPT ![t].base = <<STATE0, STATE1>>]
    /\ UNCHANGED <<STATE0, STATE1, overflow_checks, running, s1, s0, call, result, ncalls, prev, covered, origin>>

\* line 132: STATE0.store(system_time_random() as u64)
Seed0(t) ==
    /\ t \in running
    /\ pc[t] = "seed0"
    /\ \E ts \in TimeSamplesOf(running) : STATE0' = AsU64(SystemTimeRandom(ts))
    /\ h' = [h EXCEPT ![t].seeded = TRUE, ![t].reads = @ + 1,
                      ![t].lost = @ \/ Advanced(origin[1])]
    /\ origin' = [origin EXCEPT ![1] = "seed"]
    /\ pc' = [pc EXCEPT ![t] = "seed1"]
    /\ UNCHANGED <<STATE1, overflow_checks, running, s1, s0, call, result, ncalls, prev, covered>>

\* line 133: STATE1.store(system_time_random() as u64)
Seed1(t) ==
    /\ t \in running
    /\ pc[t] = "seed1"
    /\ \E ts \in TimeSamplesOf(running) : STATE1' = AsU64(SystemTimeRandom(ts))
    /\ h' = [h EXCEPT ![t].reads = @ + 1, ![t].base = <<STATE0, STATE1'>>,
                      ![t].lost = @ \/ Advanced(origin[2])]
    /\ origin' = [origin EXCEPT ![2] = "seed"]
    /\ pc' = [pc EXCEPT ![t] = "load0"]
    /\ UNCHANGED <<STATE0, overflow_checks, running, s1, s0, call, result, ncalls, prev, covered>>

\* line 139: let mut s1 = STATE0.load()
Load0(t) ==
    /\ t \in running
    /\ pc[t] = "load0"
    /\ s1' = [s1 EXCEPT ![t] = STATE0]
    /\ h' = [h EXCEPT ![t].ld0 = STATE0, ![t].unset = @ \/ origin[1] = "init"]
    /\ pc' = [pc EXCEPT ![t] = "load1"]
    /\ UNCHANGED <<STATE0, STATE1, overflow_checks, running, s0, call, result, ncalls, prev, covered, origin>>

\* line 140: let s0 = STATE1.load()
Load1(t) ==
    /\ t \in running
    /\ pc[t] = "load1"
    /\ s0' = [s0 EXCEPT ![t] = STATE1]
    /\ h' = [h EXCEPT ![t].unset = @ \/ origin[2] = "init"]
    /\ pc' = [pc EXCEPT ![t] = "store0"]
    /\ UNCHANGED <<STATE0, STATE1, overflow_checks, running, s1, call, result, ncalls, prev, covered, origin>>

\* line 142: STATE0.store(s0)
Store0(t) ==
    /\ t \in running
    /\ pc[t] = "store0"
    /\ STATE0' = s0[t]
    /\ origin' = [origin EXCEPT ![1] = "rotate"]
    /\ pc' = [pc EXCEPT ![t] = "mix"]
    /\ UNCHANGED <<STATE1, overflow_checks, running, s1, s0, call, result, ncalls, h, prev, covered>>

\* MixStore1 that mixes with a second load of STATE1 instead of the local s0
MixStore1Reload(t) ==
    /\ t \in running
    /\ pc[t] = "mix"
    /\ s1' = [s1 EXCEPT ![t] = Xorshift(s1[t], STATE1)]
    /\ STATE1' = s1'[t]
    /\ h' = [h EXCEPT ![t].steps = @ + 1]
    /\ origin' = [origin EXCEPT ![2] = "mix"]
    /\ pc' = [pc EXCEPT ![t] = "ret"]
    /\ UNCHANGED <<STATE0, overflow_checks, running, s0, call, result, ncalls, prev, covered>>

\* lines 144-149: the mixing of the locals, then STATE1.store(s1)
MixStore1(t) ==
    /\ t \in running
    /\ pc[t] = "mix"
    /\ s1' = [s1 EXCEPT ![t] = Xorshift(s1[t], s0[t])]
    /\ STATE1' = s1'[t]
    /\ h' = [h EXCEPT ![t].steps = @ + 1]
    /\ origin' = [origin EXCEPT ![2] = "mix"]
    /\ pc' = [pc EXCEPT ![t] = "ret"]
    /\ UNCHANGED <<STATE0, overflow_checks, running, s0, call, result, ncalls, prev, covered>>

\* lines 151 and 96: random_u64 returns s0.wrapping_add(s1) to random_float,
\* which returns the quotient
ReturnFloat(t) ==
    /\ t \in running
    /\ pc[t] = "ret"
    /\ call[t].op = "float"
    /\ LET raw == RawOutput(s0[t], s1[t])
       IN  /\ h' = [h EXCEPT ![t].raw = raw, ![t].exit = <<STATE0, STATE1>>]
           /\ result' = [result EXCEPT ![t] = ReturnedF64(FloatOf(raw))]
    /\ pc' = [pc EXCEPT ![t] = "idle"]
    /\ UNCHANGED <<STATE0, STATE1, overflow_checks, running, s1, s0, call, ncalls, prev, covered, origin>>

\* lines 151 and 120: random_u64 returns s0.wrapping_add(s1) to
\* random_int_range, which returns start + (raw as i32).abs() % difference or
\* panics
ReturnIntRange(t) ==
    /\ t \in running
    /\ pc[t] = "ret"
    /\ call[t].op = "range"
    /\ LET raw == RawOutput(s0[t], s1[t])
           res == RangeResult(call[t].start, call[t].difference, raw, overflow_checks)
       IN  /\ h' = [h EXCEPT ![t].raw = raw, ![t].exit = <<STATE0, STATE1>>]
           /\ result' = [result EXCEPT ![t] = res]
           /\ pc' = [pc EXCEPT ![t] = IF res.kind = "panic" THEN "panicked" ELSE "idle"]
    /\ UNCHANGED <<STATE0, STATE1, overflow_checks, running, s1, s0, call, ncalls, prev, covered, origin>>

\* lines 118-121 on a given draw: random_int_range is applied to the next of
\* RawDraws, and an integer it returns is recorded (lines 210-214)
ApplyRange(t) ==
    /\ t \in running
    /\ pc[t] = "idle"
    /\ call[t].op = "range"
    /\ ncalls[t] < Len(RawDraws)
    /\ LET raw == RawDraws[ncalls[t] + 1]
           res == RandomIntRange(call[t].start, call[t].end, raw, overflow_checks)
       IN  /\ result' = [result EXCEPT ![t] = res]
           /\ h' = [h EXCEPT ![t].raw = raw]
           /\ covered' = IF res.kind = "int" THEN covered \cup {res.i} ELSE covered
    /\ ncalls' = [ncalls EXCEPT ![t] = @ + 1]
    /\ UNCHANGED <<STATE0, STATE1, overflow_checks, running, pc, s1, s0, call, prev, origin>>

\* A second execution of the call that thread t made last is prepared: the
\* generator is put back into the state that call began in.  (Not an
\* operation of the program: it lets two executions from one state be
\* compared.)
Rewind(t) ==
    /\ t \in running
    /\ pc[t] = "idle"
    /\ result[t].kind = "float"
    /\ <<STATE0, STATE1>> # h[t].entry
    /\ STATE0' = h[t].entry[1]
    /\ STATE1' = h[t].entry[2]
    /\ UNCHANGED <<overflow_checks, running, pc, s1, s0, call, result, ncalls, h, prev, covered, origin>>

\* a step of random_float
StepFloat(t) ==
    \/ CallFloat(t)
    \/ Check(t)
    \/ Seed0(t)
    \/ Seed1(t)
    \/ Load0(t)
    \/ Load1(t)
    \/ Store0(t)
    \/ MixStore1(t)
    \/ ReturnFloat(t)

\* a step of random_float or of random_int_range
Step(t) ==
    \/ StepFloat(t)
    \/ CallIntRange(t)
    \/ ReturnIntRange(t)

Next == \E t \in Threads : Step(t)

\* one thread draws MaxCalls times, starting from the state of a new process
Spec == Init /\ [][Next]_vars

NextConc == \E t \in Threads : StepFloat(t)

\* two threads call random_float, MaxCallsConc times in all, in every
\* interleaving of their atomic loads and stores
SpecConc == InitConc /\ [][NextConc]_vars

\* two threads call random_float in a new process, whose first draw seeds
SpecRace == InitRace /\ [][NextConc]_vars

NextRange == ApplyRange(1)

\* random_int_range as a function: one range, every draw of RawDraws
SpecRange == InitRange /\ [][NextRange]_vars

NextTwin == StepFloat(1) \/ Rewind(1)

\* random_u64 executed again from the state an execution began in
SpecTwin == Init /\ [][NextTwin]_vars

----------------------------------------------------------------------------
(* Properties: shared definitions *)

\* thread t has made a call and that call has ended, by a return or a panic
Done(t) == call[t].op # "none" /\ pc[t] \in {"idle", "panicked"}

\* the mixing formula bit by bit: bit i of the new s1 is the parity of bits
\* i, i-23, i+17 and i-6 of the old s1 (the last two only while i+17 <= 63)
\* and of bits i and i+26 of s0
MixSpec(a, b) ==
    {i \in Bits64 :
        (Bit(a, i) + Bit(a, i - 23)
         + (IF i + 17 <= 63 THEN Bit(a, i + 17) + Bit(a, i - 6) ELSE 0)
         + Bit(b, i) + Bit(b, i + 26)) % 2 = 1}

\* the k-th 16-bit limb of a word, as a number
Limb(x, k) == SumBits(Shr(x, 16 * k), 16)

RECURSIVE CarryInto(_, _, _)
\* the carry of x + y into limb k
CarryInto(x, y, k) ==
    IF k = 0 THEN 0
    ELSE (Limb(x, k - 1) + Limb(y, k - 1) + CarryInto(x, y, k - 1)) \div 65536

\* r = (x + y) mod 2^64, limb by limb
IsSumMod64(r, x, y) ==
    \A k \in 0 .. 3 : Limb(r, k) = (Limb(x, k) + Limb(y, k) + CarryInto(x, y, k)) % 65536

----------------------------------------------------------------------------
(* Properties of the single-threaded specification Spec *)

\* C1: every call random_int_range(start, end) with end > start ends by
\* returning an integer r with start <= r < end.
\* Violated: a draw whose low 32 bits are 0x80000000 makes abs overflow, and
\* end - start overflows for a range wider than MaxI32.
C1_ResultInRange ==
    \A t \in running :
        (Done(t) /\ call[t].op = "range" /\ call[t].end > call[t].start)
        => /\ result[t].kind = "int"
           /\ call[t].start <= result[t].i
           /\ result[t].i < call[t].end

\* C2: every value v that random_float returns has 0 <= v < 1: it is exactly
\* numerator / 2^53 for the numerator raw >> 11, which lies in 0 .. 2^53 - 1,
\* and the denominator is 2^53.
C2_FloatInUnitInterval ==
    \A t \in running :
        result[t].kind = "float"
        => /\ F64Ge0(result[t].f)
           /\ F64Lt1(result[t].f)
           /\ FloatNumerator(h[t].raw) \subseteq 0 .. 52
           /\ FloatDenominator = {53}
           /\ result[t].f = F64Make(FloatNumerator(h[t].raw), -53)

\* C2, witness: random_float has returned for a draw whose upper 53 bits are
\* all ones, the largest numerator 2^53 - 1
C2_Witness ==
    /\ result[1].kind = "float"
    /\ FloatNumerator(h[1].raw) = 0 .. 52

\* C3: every call random_int_range(start, end) with end <= start ends in a
\* panic and never returns an integer.
\* Violated: for end < start the difference is negative, the remainder by it
\* is defined, and the call returns.
C3_EmptyRangeFails ==
    \A t \in running :
        (Done(t) /\ call[t].op = "range" /\ call[t].end <= call[t].start)
        => result[t].kind = "panic"

\* thread t has two random_float results in a row
Adjacent(t) == prev[t].result.kind = "float" /\ result[t].kind = "float"

C7_OneDraw ==
    \A t \in running :
        (Done(t) /\ h[t].steps = 1 /\ h[t].entry[1] # Zero64)
        => LET a == h[t].entry[1]
               b == h[t].entry[2]
               m == MixSpec(a, b)
           IN  /\ STATE0 = b
               /\ STATE1 = m
               /\ h[t].exit = <<b, m>>
               /\ IsSumMod64(h[t].raw, b, m)

\* C7, witness: a draw that started with state0 # 0 has returned a word that
\* needed the carry out of bit 63 to be dropped
C7_Witness ==
    /\ Done(1)
    /\ h[1].steps = 1
    /\ h[1].entry[1] # Zero64
    /\ 63 \in h[1].entry[2]
    /\ 63 \in STATE1
    /\ STATE0 # Zero64

\* the words a seeding can store
SeedWords == {AsU64(SystemTimeRandom(ts)) : ts \in TimeSamples}

\* the draw of thread t's current or last call is past the seeding branch
PastSeeding(t) ==
    \/ pc[t] \in {"load0", "load1", "store0", "mix", "ret"}
    \/ Done(t) /\ h[t].steps >= 1

\* C8: a draw seeds exactly when state0 is 0 at its start, which it is for
\* the first draw: it then reads the clock twice and stores both words before
\* it mixes, and mixes what it stored; a draw that starts with state0 # 0
\* neither reads the clock nor stores a seed.
C8_SeedsExactlyOnZero ==
    \A t \in running :
        /\ pc[t] \in {"seed0", "seed1"} => h[t].entry[1] = Zero64 /\ h[t].steps = 0
        /\ PastSeeding(t)
           => /\ h[t].seeded <=> h[t].entry[1] = Zero64
              /\ h[t].reads = IF h[t].seeded THEN 2 ELSE 0
              /\ h[t].seeded => h[t].base[1] \in SeedWords /\ h[t].base[2] \in SeedWords
              /\ ~h[t].seeded => h[t].base = h[t].entry
              /\ pc[t] # "load0" => h[t].ld0 = h[t].base[1]
              /\ ncalls[t] = 1 => h[t].seeded

\* C8, witness: a draw after the first has seeded again, from non-zero seed
\* words (the draw before left state0 = 0), and has returned
C8_Witness ==
    /\ Done(1)
    /\ ncalls[1] >= 2
    /\ h[1].seeded
    /\ h[1].steps = 1
    /\ Zero64 \notin {h[1].base[1], h[1].base[2]}
    /\ h[1].entry[2] # Zero64

\* C9: every call of random_float, and every call of random_int_range with
\* end > start, makes exactly one step of random_u64: when it has ended the
\* state is the state at its start (after the seeding, if state0 was 0)
\* advanced by one mixing step.
\* Violated: in a build with overflow checks a range wider than MaxI32
\* panics at end - start, before the draw.
C9_ExactlyOneStep ==
    \A t \in running :
        (Done(t) /\ (call[t].op = "float" \/ call[t].end > call[t].start))
        => /\ h[t].steps = 1
           /\ h[t].entry[1] # Zero64 => h[t].base = h[t].entry
           /\ STATE0 = h[t].base[2]
           /\ STATE1 = MixSpec(h[t].base[1], h[t].base[2])

\* the seed words of thread t's current or last draw, if it seeded, are not 0
SeedsNonZero(t) ==
    (h[t].seeded /\ PastSeeding(t)) => Zero64 \notin {h[t].base[1], h[t].base[2]}

AllZero == <<Zero64, Zero64>>

\* C13: in a single-threaded sequence of draws whose seed words are not 0,
\* the state is not (0, 0) when lines 139-140 load it, the pair they loaded
\* is not (0, 0), and the state is not (0, 0) when a draw has ended.  (The
\* formula asks only the seed words of the draw at hand to be non-zero, which
\* holds throughout such a sequence.)
C13_NeverAllZero ==
    \A t \in running :
        SeedsNonZero(t)
        => /\ pc[t] \in {"load0", "load1"} => <<STATE0, STATE1>> # AllZero
           /\ pc[t] \in {"store0", "mix"} => <<s1[t], s0[t]>> # AllZero
           /\ (Done(t) /\ h[t].steps = 1)
                => <<STATE0, STATE1>> # AllZero /\ h[t].exit # AllZero

\* C13, witness: after a draw that seeded with non-zero words and left
\* state1 = 0, the next draw has ended without seeding and has left
\* state0 = 0, one word short of the fixed point; state1 is not 0
C13_Witness ==
    /\ Done(1)
    /\ h[1].steps = 1
    /\ ~h[1].seeded
    /\ prev[1].h.seeded
    /\ Zero64 \notin {prev[1].h.base[1], prev[1].h.base[2]}
    /\ h[1].entry[2] = Zero64
    /\ STATE0 = Zero64
    /\ STATE1 # Zero64

----------------------------------------------------------------------------
(* Properties of random_int_range as a function of the draw (SpecRange) *)

\* integers of a range that are looked for among the results
TargetsShown == 10

\* the first TargetsShown integers of the range [start, end)
Targets(c) == {v \in {c.start + k : k \in 0 .. (TargetsShown - 1)} : v < c.end}

\* C4: for every range with end > start every integer of [start, end) is a
\* possible result: once random_int_range has been applied to every draw of
\* RawDraws, which hold every remainder 0 .. 9, each of the (first ten)
\* integers of the range has been returned.
\* Violated: for a range wider than MaxI32 the difference overflows; the call
\* panics, or reduces by the wrapped difference -1 and returns start only.
C4_EveryValueReached ==
    \A t \in running :
        (call[t].op = "range" /\ call[t].end > call[t].start /\ ncalls[t] = Len(RawDraws))
        => Targets(call[t]) \subseteq covered

\* C12: for every range with end > start and every raw draw none of the i32
\* operations of random_int_range overflows: end - start fits, the absolute
\* value of the draw cut to 32 bits is not negative, start plus the remainder
\* fits, and so the call does not panic.
\* Violated: end - start overflows for a range wider than MaxI32; the
\* absolute value of a draw whose low 32 bits are 0x80000000 overflows and,
\* where it wraps, stays MinI32; the remainder is then negative and start
\* plus it overflows for a start near MinI32.
C12_NoOverflow ==
    \A t \in running :
        (call[t].op = "range" /\ call[t].end > call[t].start /\ ncalls[t] >= 1)
        => LET d   == Difference(call[t].start, call[t].end)
               ab  == AbsI32(AsI32(h[t].raw))
               rm  == RemI32(ab.val, d.val)
               sum == AddI32(call[t].start, rm.val)
           IN  /\ ~d.ovf
               /\ ~ab.ovf /\ ab.val >= 0
               /\ ~sum.ovf
               /\ result[t].kind = "int"

----------------------------------------------------------------------------
(* Properties of two executions from one state (SpecTwin) *)

\* C6 as claimed: two executions of random_u64 that start in the same state
\* return the same word and leave the same state.
\* Violated: from a state with state0 = 0 each execution seeds from the
\* clock, and the clock need not read the same twice.
C6_Deterministic ==
    \A t \in running :
        (Adjacent(t) /\ prev[t].h.entry = h[t].entry)
        => h[t].raw = prev[t].h.raw /\ h[t].exit = prev[t].h.exit

\* C6 as amended: two executions of random_u64 that start in the same state
\* with state0 # 0 return the same word and leave the same state; and so do
\* two executions that leave the seeding branch in the same state.
C6_DeterministicOnceSeeded ==
    \A t \in running :
        Adjacent(t)
        => /\ (prev[t].h.entry = h[t].entry /\ h[t].entry[1] # Zero64)
                => h[t].raw = prev[t].h.raw /\ h[t].exit = prev[t].h.exit
           /\ prev[t].h.base = h[t].base
                => h[t].raw = prev[t].h.raw /\ h[t].exit = prev[t].h.exit

\* C6, witness: random_u64 has been executed twice from one state with
\* state0 # 0, and has changed that state
C6_Witness ==
    /\ Adjacent(1)
    /\ prev[1].h.entry = h[1].entry
    /\ h[1].entry[1] # Zero64
    /\ h[1].exit # h[1].entry
    /\ h[1].raw = prev[1].h.raw

----------------------------------------------------------------------------
(* Properties of the two-threaded specification SpecConc *)

\* both threads have drawn, and lines 139-140 loaded the same pair in both
SamePairLoaded ==
    /\ Done(1) /\ h[1].steps = 1
    /\ Done(2) /\ h[2].steps = 1
    /\ h[1].ld0 = h[2].ld0
    /\ s0[1] = s0[2]

\* C10: when the draws of two threads interleave so that both load the same
\* pair (a, b), both return the same word (b + m) mod 2^64 and the generator
\* is left in (b, m), one mixing step after (a, b).
C10_SamePairOneStep ==
    SamePairLoaded
    => LET a == h[1].ld0
           b == s0[1]
           m == MixSpec(a, b)
       IN  /\ h[1].raw = h[2].raw
           /\ IsSumMod64(h[1].raw, b, m)
           /\ STATE0 = b
           /\ STATE1 = m

\* C10, witness: two threads have drawn from a seeded state without seeding,
\* both loaded the pair (a, b) the state had when they began, both returned
\* the same word, and the state is one step after (a, b); a sequential order
\* of the two draws would have left the state two steps after (a, b), which
\* is another state, and its second draw would have returned another word
C10_Witness ==
    /\ SamePairLoaded
    /\ ~h[1].seeded /\ ~h[2].seeded
    /\ h[1].entry = <<h[1].ld0, s0[1]>>
    /\ h[2].entry = h[1].entry
    /\ h[1].entry[1] # Zero64
    /\ h[1].raw = h[2].raw
    /\ <<STATE0, STATE1>> = AfterDraw(h[1].ld0, s0[1])
    /\ <<STATE0, STATE1>> # AfterDraw(STATE0, STATE1)
    /\ h[1].raw # RawOutput(STATE1, Xorshift(STATE0, STATE1))

----------------------------------------------------------------------------
(* Properties of two threads drawing in a new process (SpecRace) *)

\* lines 139-140 of thread t's current or last call have loaded both words
Loaded(t) ==
    \/ pc[t] \in {"store0", "mix", "ret"}
    \/ Done(t) /\ h[t].steps = 1

\* C11: while two threads make their first draws in a new process, whose
\* state is (0, 0), every mixing step has loaded a state0 and a state1 that
\* a seeding store or a store of an earlier mixing step wrote, never the
\* initial 0 of a word not yet seeded; and no seeding store replaces a word
\* that a mixing step of the other thread stored (in a first draw the seed
\* stores come before the thread's own mixing step, so a word of a mixing
\* step that they replace is the other thread's).
\* Violated: when one thread has stored the seed of state0 (line 132) and not
\* yet the seed of state1 (line 133), the other thread finds state0 # 0,
\* does not seed, and loads the initial 0 of state1; its store of line 149
\* is then replaced by the first thread's seed of state1.
C11_RaceBenign ==
    (ncalls[1] <= 1 /\ ncalls[2] <= 1)
    => \A t \in running :
          /\ Loaded(t) => ~h[t].unset
          /\ ~h[t].lost

====
